---- MODULE Spec2Model ----
(***************************************************************************)
(* Model of ioetap's recording subsystem: the line assembler and           *)
(* sequencer/writer of internal/recorder/recorder.go, the classifier of    *)
(* internal/recorder/record.go, the forwarding loop CopyAndRecord and the  *)
(* orchestration of cmd/ioetap/main.go (run).                              *)
(*                                                                         *)
(* Bytes are integers 0..255.  A []byte is a sequence of bytes.  A slice   *)
(* of the caller's chunk is the pair (arr, pos): the bytes of arr after    *)
(* the first pos ones, sharing arr's backing array of capacity cap.        *)
(***************************************************************************)
EXTENDS Integers, Sequences, FiniteSets, TLC

\* ------------------------------------------------------------------ bytes
LF == 10
CR == 13

\* ------------------------------------------------------------------ bounds
\* limits (maxLineLength values) tried by the assembler specification: 0..MaxLimit
MaxLimit == 2
\* total number of bytes fed to a stream in the assembler specification
MaxFed == 4
\* longest chunk handed to one Record call in the assembler specification
MaxChunk == 4
\* total number of bytes read from the three sources in the program
\* specification
MaxRead == 2
\* limits (maxLineLength values) tried by the program specification: 0..MaxProgLimit
MaxProgLimit == 1
\* bytes read from all sources together in the specification of run() in
\* whole iterations
MaxRunRead == 1
\* longest input handed to NewRecord in the specification of its direct calls
MaxData == 5
\* bytes handed to Record by all callers together in the specification of
\* calls with time passing
MaxCallRead == 2
\* last tick of the clock in that specification
MaxClock == 2
\* clock ticks per millisecond (time.Now() has a finer resolution than the
\* millisecond timestamp format)
TicksPerMs == 2

Sources == {"stdin", "stdout", "stderr"}
Outbound == {"stdout", "stderr"}

\* ------------------------------------------------------------ slice helpers
Take(s, k) == SubSeq(s, 1, k)
Drop(s, k) == SubSeq(s, k + 1, Len(s))

Min(a, b) == IF a < b THEN a ELSE b

\* 0-based index of the last b in data, -1 when absent
IndexByteLast(data, b) ==
  IF \E i \in 1..Len(data) : data[i] = b
  THEN (CHOOSE i \in 1..Len(data) : data[i] = b /\ \A j \in (i + 1)..Len(data) : data[j] # b) - 1
  ELSE -1

\* bytes.IndexByte: 0-based index of the first b in data, -1 when absent
IndexByte(data, b) ==
  IF \E i \in 1..Len(data) : data[i] = b
  THEN (CHOOSE i \in 1..Len(data) : data[i] = b /\ \A j \in 1..(i - 1) : data[j] # b) - 1
  ELSE -1

\* copy(dst[at:], src) on an array of fixed length: positions past the end
\* of arr belong to the spare capacity and are not part of the slice
Overwrite(arr, at, src) ==
  [i \in 1..Len(arr) |->
     IF i > at /\ i <= at + Len(src) THEN src[i - at] ELSE arr[i]]

\* --------------------------------------------------------- line assembler
\* extractLineEndingFromLine: "\n", "\r\n" or nothing
extractLineEndingFromLine(line) ==
  IF Len(line) = 0 THEN <<>>
  ELSE IF line[Len(line)] # LF THEN <<>>
  ELSE IF Len(line) >= 2 /\ line[Len(line) - 1] = CR THEN <<CR, LF>>
  ELSE <<LF>>

\* extractLineEnding: the ending of buf followed by chunk
extractLineEnding(buf, chunk) == extractLineEndingFromLine(buf \o chunk)

\* ------------------------------------------------------------- classifier
\* unicode.IsSpace restricted to single bytes (bytes.TrimSpace)
IsSpace(b) == b \in {9, 10, 11, 12, 13, 32}

RECURSIVE TrimLeft(_)
TrimLeft(s) == IF s # <<>> /\ IsSpace(s[1]) THEN TrimLeft(Tail(s)) ELSE s

RECURSIVE TrimRight(_)
TrimRight(s) ==
  IF s # <<>> /\ IsSpace(s[Len(s)]) THEN TrimRight(Take(s, Len(s) - 1)) ELSE s

TrimSpace(s) == TrimRight(TrimLeft(s))

IsDigit(b) == b >= 48 /\ b <= 57

Quote == 34
Backslash == 92
LowerE == 101

\* a JSON integer part: a non-empty run of digits without a leading zero
IsJsonInt(t) ==
  /\ Len(t) > 0
  /\ \A i \in 1..Len(t) : IsDigit(t[i])
  /\ (Len(t) = 1 \/ t[1] # 48)

\* a JSON number without sign and fraction: int, or int 'e' digits
IsJsonNumber(t) ==
  \/ IsJsonInt(t)
  \/ \E k \in 2..(Len(t) - 1) :
       /\ t[k] = LowerE
       /\ IsJsonInt(Take(t, k - 1))
       /\ \A i \in (k + 1)..Len(t) : IsDigit(t[i])

\* a JSON string without escapes: the scanner (stateInString) accepts every
\* byte from 0x20 on between the quotes and does not look at UTF-8
IsJsonString(t) ==
  /\ Len(t) >= 2
  /\ t[1] = Quote /\ t[Len(t)] = Quote
  /\ \A i \in 2..(Len(t) - 1) : t[i] # Quote /\ t[i] # Backslash /\ t[i] >= 32

\* json.Valid on a trimmed input.  Over the byte alphabets of this model (no
\* brace, bracket, sign, point, backslash or letter of true/false/null) the
\* JSON values are unsigned numbers and strings without escapes.  Anything
\* else (trailing data, two values, bad bytes) is rejected.
JsonValid(t) == IsJsonNumber(t) \/ IsJsonString(t)

\* the value of a run of decimal digits
RECURSIVE Decimal(_)
Decimal(t) ==
  IF t = <<>> THEN 0 ELSE 10 * Decimal(Take(t, Len(t) - 1)) + (t[Len(t)] - 48)

\* the decimal exponent of the leading digit of a JSON number int 'e' digits
Magnitude(t) ==
  IF IsJsonInt(t) THEN Len(t) - 1
  ELSE LET k == CHOOSE i \in 1..Len(t) : t[i] = LowerE
       IN (k - 2) + Decimal(Drop(t, k))

\* largest decimal exponent of a float64 (math.MaxFloat64 = 1.79...e308)
MaxFloat64Exp10 == 308

\* strconv.ParseFloat(s, 64) returns no range error.  A number of exactly
\* MaxFloat64Exp10 fits when its digits are at most 1.79...: over digits whose
\* second is not between 0 and 7 that is the single digit 1 alone.
FitsFloat64(t) ==
  \/ Magnitude(t) < MaxFloat64Exp10
  \/ /\ Magnitude(t) = MaxFloat64Exp10
     /\ t[1] = 49
     /\ (t[2] = LowerE \/ (IsDigit(t[2]) /\ t[2] <= 55))

\* json.Unmarshal(trimmed, &parsed) of valid JSON returns no error: a string
\* always decodes (invalid UTF-8 becomes U+FFFD), a number must fit a float64
UnmarshalOk(t) == IsJsonString(t) \/ FitsFloat64(t)

\* utf8.Valid for one- and two-byte sequences (the model's alphabet holds no
\* leader of a three- or four-byte sequence): ASCII stands alone, a leader
\* C2..DF needs one continuation byte 80..BF, every other byte is invalid.
RECURSIVE Utf8Valid(_)
Utf8Valid(s) ==
  IF s = <<>> THEN TRUE
  ELSE IF s[1] < 128 THEN Utf8Valid(Tail(s))
  ELSE IF s[1] >= 194 /\ s[1] <= 223
       THEN /\ Len(s) >= 2
            /\ s[2] >= 128 /\ s[2] <= 191
            /\ Utf8Valid(Drop(s, 2))
  ELSE FALSE

\* splitTrailingCRLF: (content, trailing) where trailing is the maximal
\* trailing run of CR and LF bytes
RECURSIVE SplitEnd(_)
SplitEnd(data) ==
  IF data # <<>> /\ data[Len(data)] \in {CR, LF}
  THEN SplitEnd(Take(data, Len(data) - 1))
  ELSE Len(data)

splitTrailingCRLFOneEnding(data) ==
  [content |-> Take(data, SplitEnd(data)), trailing |-> extractLineEndingFromLine(data)]

splitTrailingCRLF(data) ==
  [content |-> Take(data, SplitEnd(data)), trailing |-> Drop(data, SplitEnd(data))]

\* base64.StdEncoding.EncodeToString: the result is the sequence of indices
\* into the base64 alphabet, 64 standing for the padding character '='
Base64Pad == 64

RECURSIVE Base64Encode(_)
Base64Encode(d) ==
  IF d = <<>> THEN <<>>
  ELSE IF Len(d) = 1
       THEN << d[1] \div 4, (d[1] % 4) * 16, Base64Pad, Base64Pad >>
  ELSE IF Len(d) = 2
       THEN << d[1] \div 4, (d[1] % 4) * 16 + d[2] \div 16, (d[2] % 16) * 4, Base64Pad >>
  ELSE << d[1] \div 4, (d[1] % 4) * 16 + d[2] \div 16,
          (d[2] % 16) * 4 + d[3] \div 64, d[3] % 64 >>
       \o Base64Encode(Drop(d, 3))

\* timestamp.UTC().Format("2006-01-02T15:04:05.000Z"): millisecond precision
FormatTimestamp(t) == t \div TicksPerMs

\* the End field of a json record: NewRecord does not set it
JsonEndAsText(data) == splitTrailingCRLF(data).trailing

JsonEnd(data) == <<>>

\* NewRecord: encoding detection with priority JSON > text > base64
NewRecord(sq, timestamp, source, data) ==
  LET trimmed == TrimSpace(data) IN
  IF Len(trimmed) > 0 /\ JsonValid(trimmed) /\ UnmarshalOk(trimmed)
  THEN [seq |-> sq, timestamp |-> FormatTimestamp(timestamp), source |-> source,
        content |-> trimmed, encoding |-> "json", end |-> JsonEnd(data),
        truncated |-> FALSE]
  ELSE IF Utf8Valid(data)
  THEN [seq |-> sq, timestamp |-> FormatTimestamp(timestamp), source |-> source,
        content |-> splitTrailingCRLF(data).content, encoding |-> "text",
        end |-> splitTrailingCRLF(data).trailing, truncated |-> FALSE]
  ELSE [seq |-> sq, timestamp |-> FormatTimestamp(timestamp), source |-> source,
        content |-> Base64Encode(data), encoding |-> "base64", end |-> <<>>,
        truncated |-> FALSE]

\* ------------------------------------------------------------------ state
VARIABLES
  maxLineLength,  \* Recorder.maxLineLength (0 = unlimited)
  seq,            \* Recorder.seq
  buffers,        \* Recorder.buffers, one line buffer per source
  truncated,      \* Recorder.truncated, one flag per source
  mu,             \* Recorder.mu: "free" or the holder
  writer,         \* tokens accepted by Recorder.writer and not yet in the file
  file,           \* tokens that reached Recorder.file
  werr,           \* sticky error of the bufio.Writer
  closed,         \* Recorder.file has been closed
  pc,             \* position of each forwarding loop / caller
  frame,          \* locals of the call each caller is in
  fed,            \* bytes read from each source so far
  dst,            \* bytes written to each destination so far
  recin,          \* bytes handed to Record for each source so far
  clock,          \* time.Now() (no specification lets time pass yet)
  mainpc,         \* position of run()
  childExited,    \* the child process has exited
  exitCode,       \* exitCode of run(): what proc.Wait() returned
  closeErr,       \* what rec.Close() returned: "none" before the call
  fileCloses,     \* number of calls of Recorder.file.Close()
  result,         \* the status main passes to os.Exit
  created,        \* NewRecorder has created the file and returned a Recorder
  killed,         \* run() has sent os.Kill to the child
  rawData,        \* the data argument of a direct call of NewRecord
  record          \* what that call returned: NoRecord before the call

vars == << maxLineLength, seq, buffers, truncated, mu, writer, file, werr,
           closed, pc, frame, fed, dst, recin, clock, mainpc, childExited,
           exitCode, closeErr, fileCloses, result, created, killed,
           rawData, record >>

\* what only the orchestrator writes
runVars == << exitCode, closeErr, fileCloses, result, created, killed >>

\* what only a direct call of NewRecord writes
recVars == << rawData, record >>

\* no Record value yet
NoRecord ==
  [seq |-> 0, timestamp |-> 0, source |-> "none", content |-> <<>>,
   encoding |-> "none", end |-> <<>>, truncated |-> FALSE]

\* locals of a Record/Flush call and of the CopyAndRecord iteration around it
NoFrame ==
  [arr |-> <<>>, pos |-> 0, cap |-> 0, buf |-> <<>>, isTrunc |-> FALSE,
   now |-> 0, wseq |-> 0, wdata |-> <<>>, wtrunc |-> FALSE,
   after |-> "none", lineEnd |-> 0, readErr |-> "nil", op |-> "none"]

\* r.seq.Add(1): the value after the increment
NextSeq(s) == s + 1

\* seq := r.seq.Add(1) - 1: the number given to the record
AllocSeqOffByOne(s) == NextSeq(s)

AllocSeq(s) == NextSeq(s) - 1

\* the view one call has of the recorder: its locals (fr), the buffer and
\* flag of its own source, the counter and the writer
Machine(fr, s) ==
  [fr |-> fr, source |-> s, bufS |-> buffers[s], truncS |-> truncated[s],
   seq |-> seq, writer |-> writer, werr |-> werr, st |-> "loop", err |-> "nil"]

Return(m, e) == [m EXCEPT !.st = "ret", !.err = e]

\* writeRecord up to the call of writer.Write: allocate the sequence number
\* and build the record; `after` names what the caller does once the record
\* is written
StartWrite(m, wdata, trunc, after, lineEnd) ==
  [m EXCEPT !.seq = NextSeq(m.seq) ,
            !.fr.wseq = AllocSeq(m.seq),
            !.fr.wdata = wdata, !.fr.wtrunc = trunc,
            !.fr.after = after, !.fr.lineEnd = lineEnd,
            !.st = "wjson"]

\* the record writeRecord serializes
PendingRecord(m) ==
  [NewRecord(m.fr.wseq, m.fr.now, m.source, m.fr.wdata)
     EXCEPT !.truncated = m.fr.wtrunc]

\* append(content, lineEnding...) inside writeTruncatedRecord when content is
\* line[:maxLineLength] and line is a slice of the caller's chunk: with enough
\* capacity the line ending is stored in place, in the caller's array
InPlace(m, max, lineEnding) == m.fr.pos + max + Len(lineEnding) <= m.fr.cap

\* the truncation test of Record: a limit is set and n bytes exceed it
ExceedsLimitNoZeroCheck(n, max) == n > max

ExceedsLimitAtLimit(n, max) == max > 0 /\ n >= max

ExceedsLimit(n, max) == max > 0 /\ n > max

\* r.buffers[source] = newBuf[:r.maxLineLength]
CapBufferKeepAll(newBuf, max) == newBuf

CapBuffer(newBuf, max) == Take(newBuf, max)

\* in truncation mode a chunk without newline is skipped: return nil
SkipChunkIntoBuffer(m) ==
  Return([m EXCEPT !.bufS = m.bufS \o Drop(m.fr.arr, m.fr.pos)], "nil")

SkipChunk(m) == Return(m, "nil")

\* one iteration of the loop of Record, up to the next call of writer.Write
\* or to the return
LoopStep(m, max) ==
  LET data == Drop(m.fr.arr, m.fr.pos)
      idx == IndexByte(data, LF)
      lineEnd == idx + 1
      buf == m.fr.buf
  IN
  IF m.fr.isTrunc
  THEN IF idx = -1
       THEN SkipChunk(m)
       ELSE StartWrite(m, buf \o extractLineEnding(buf, Take(data, lineEnd)),
                       TRUE, "reset", lineEnd)
  ELSE IF idx = -1
  THEN LET newBuf == buf \o data IN
       IF ExceedsLimit(Len(newBuf), max)
       THEN Return([m EXCEPT !.bufS = CapBuffer(newBuf, max), !.truncS = TRUE], "nil")
       ELSE Return([m EXCEPT !.bufS = newBuf], "nil")
  ELSE LET alias == Len(buf) = 0
           line == IF alias THEN Take(data, lineEnd) ELSE buf \o Take(data, lineEnd)
           m1 == IF alias THEN m ELSE [m EXCEPT !.fr.buf = <<>>, !.bufS = <<>>]
       IN
       IF ExceedsLimit(Len(line), max)
       THEN LET lineEnding == extractLineEndingFromLine(line)
                m2 == IF alias /\ InPlace(m, max, lineEnding)
                      THEN [m1 EXCEPT !.fr.arr =
                              Overwrite(m.fr.arr, m.fr.pos + max, lineEnding)]
                      ELSE m1
            IN StartWrite(m2, Take(line, max) \o lineEnding, TRUE, "advance", lineEnd)
       ELSE StartWrite(m1, line, FALSE, "advance", lineEnd)

\* writer.Write(jsonData) inside writeRecord
JsonStep(m, fail) ==
  IF m.werr \/ fail
  THEN Return([m EXCEPT !.werr = TRUE], "err")
  ELSE [m EXCEPT !.writer = Append(m.writer, [tok |-> "json", rec |-> PendingRecord(m)]),
                 !.st = "wnl"]

\* writer.WriteString("\n") inside writeRecord, then the caller's code after
\* a successful writeRecord up to the next loop test
NlStep(m, fail) ==
  IF m.werr \/ fail
  THEN Return([m EXCEPT !.werr = TRUE], "err")
  ELSE LET w == [m EXCEPT !.writer = Append(m.writer, [tok |-> "nl"])]
           adv == [w EXCEPT !.fr.pos = m.fr.pos + m.fr.lineEnd]
           nxt == IF m.fr.after = "reset"
                  THEN [adv EXCEPT !.bufS = <<>>, !.truncS = FALSE,
                                   !.fr.buf = <<>>, !.fr.isTrunc = FALSE]
                  ELSE adv
       IN
       IF m.fr.after = "flush" THEN Return(w, "nil")
       ELSE IF nxt.fr.pos >= Len(nxt.fr.arr) THEN Return(nxt, "nil")
       ELSE [nxt EXCEPT !.st = "loop"]

\* Record after r.mu.Lock(): read the buffer and the flag of the source
RecordBegin(m) ==
  [m EXCEPT !.fr.buf = m.bufS, !.fr.isTrunc = m.truncS, !.st = "loop"]

\* Flush after r.mu.Lock(), up to the call of writer.Write or to the return
FlushBodyNeverTruncated(m) ==
  IF Len(m.bufS) = 0
  THEN Return([m EXCEPT !.truncS = FALSE], "nil")
  ELSE StartWrite([m EXCEPT !.bufS = <<>>, !.truncS = FALSE],
                  m.bufS, FALSE, "flush", 0)

FlushBodyAlwaysWrites(m) ==
  StartWrite([m EXCEPT !.bufS = <<>>, !.truncS = FALSE],
             m.bufS, m.truncS, "flush", 0)

FlushBody(m) ==
  IF Len(m.bufS) = 0
  THEN Return([m EXCEPT !.truncS = FALSE], "nil")
  ELSE StartWrite([m EXCEPT !.bufS = <<>>, !.truncS = FALSE],
                  m.bufS, m.truncS, "flush", 0)

\* a whole call run to its return; okWrites is the number of writer calls
\* that succeed before the writer starts failing
RECURSIVE RunSteps(_, _, _)
RunSteps(m, max, okWrites) ==
  IF m.st = "ret" THEN m
  ELSE IF m.st = "loop" THEN RunSteps(LoopStep(m, max), max, okWrites)
  ELSE IF m.st = "wjson"
       THEN RunSteps(JsonStep(m, okWrites = 0), max, IF okWrites > 0 THEN okWrites - 1 ELSE 0)
  ELSE RunSteps(NlStep(m, okWrites = 0), max, IF okWrites > 0 THEN okWrites - 1 ELSE 0)

\* publish the recorder fields of m
CommitOneBuffer(m) ==
  /\ buffers' = [s \in Sources |-> m.bufS]
  /\ truncated' = [s \in Sources |-> m.truncS]
  /\ seq' = m.seq
  /\ writer' = m.writer
  /\ werr' = m.werr

Commit(m) ==
  /\ buffers' = [buffers EXCEPT ![m.source] = m.bufS]
  /\ truncated' = [truncated EXCEPT ![m.source] = m.truncS]
  /\ seq' = m.seq
  /\ writer' = m.writer
  /\ werr' = m.werr

\* ------------------------------------------------- assembler specification
\* One caller feeding one stream through Record and ending it with Flush;
\* each call runs to its return (the calls of one caller never overlap).
\* the bytes fed: 'a', '1' (a JSON value on its own), CR, LF and the two
\* bytes C3 A9 of a two-byte UTF-8 sequence (each invalid UTF-8 on its own)
Alphabet == {97, 49, CR, LF, 195, 169}

SeqsUpTo(S, n) == UNION {[1..k -> S] : k \in 0..n}

\* more writer calls than a call can make: no writer call fails
NoFailure == 2 * MaxFed + 2

AsmSource == "stdout"

InitCommon ==
  /\ seq = 0
  /\ buffers = [s \in Sources |-> <<>>]
  /\ truncated = [s \in Sources |-> FALSE]
  /\ mu = "free"
  /\ writer = <<>>
  /\ file = <<>>
  /\ werr = FALSE
  /\ closed = FALSE
  /\ frame = [s \in Sources |-> NoFrame]
  /\ fed = [s \in Sources |-> <<>>]
  /\ dst = [s \in Sources |-> <<>>]
  /\ recin = [s \in Sources |-> <<>>]
  /\ clock = 0
  /\ childExited = FALSE
  /\ exitCode = 0
  /\ closeErr = "none"
  /\ fileCloses = 0
  /\ result = 0
  /\ killed = FALSE

InitAssembler ==
  /\ created = TRUE
  /\ rawData = <<>>
  /\ record = NoRecord
  /\ maxLineLength \in 0..MaxLimit
  /\ pc = [s \in Sources |-> "idle"]
  /\ mainpc = "none"
  /\ InitCommon

\* Record(source, chunk) by a caller whose slice has capacity cp
Feed(s, chunk, cp) ==
  /\ pc[s] = "idle"
  /\ mu = "free"
  /\ IF Len(chunk) = 0
     THEN UNCHANGED << seq, buffers, truncated, writer, werr, clock, frame >>
     ELSE LET fr == [NoFrame EXCEPT !.arr = chunk, !.cap = cp, !.now = clock]
              m == RunSteps(RecordBegin(Machine(fr, s)), maxLineLength, NoFailure)
          IN /\ Commit(m)
             /\ clock' = clock
             /\ frame' = [frame EXCEPT ![s] = [NoFrame EXCEPT !.arr = m.fr.arr]]
  /\ fed' = [fed EXCEPT ![s] = fed[s] \o chunk]
  /\ recin' = [recin EXCEPT ![s] = recin[s] \o chunk]
  /\ UNCHANGED << maxLineLength, mu, file, closed, pc, dst, mainpc, childExited >>
  /\ UNCHANGED runVars
  /\ UNCHANGED recVars

\* Flush(source) at the end of the stream
FlushStream(s) ==
  /\ pc[s] = "idle"
  /\ mu = "free"
  /\ LET fr == [NoFrame EXCEPT !.now = clock]
         m == RunSteps(FlushBody(Machine(fr, s)), maxLineLength, NoFailure)
     IN Commit(m)
  /\ clock' = clock
  /\ pc' = [pc EXCEPT ![s] = "done"]
  /\ frame' = [frame EXCEPT ![s] = NoFrame]
  /\ UNCHANGED << maxLineLength, mu, file, closed, fed, dst, recin, mainpc, childExited >>
  /\ UNCHANGED runVars
  /\ UNCHANGED recVars

FeedAny ==
  \E chunk \in SeqsUpTo(Alphabet, Min(MaxChunk, MaxFed - Len(fed[AsmSource]))) :
    \E cp \in {Len(chunk), Len(chunk) + 2} : Feed(AsmSource, chunk, cp)

FlushAny == FlushStream(AsmSource)

NextAssembler == FeedAny \/ FlushAny

SpecAssembler == InitAssembler /\ [][NextAssembler]_vars

\* ------------------------------------------------ NewRecord called directly
\* the bytes of its inputs: the digits '1' and '9', 'e', the double quote,
\* FF (never valid in UTF-8), CR and LF
RecordAlphabet == {49, 57, LowerE, Quote, 255, CR, LF}

InitNewRecord ==
  /\ created = TRUE
  /\ rawData \in SeqsUpTo(RecordAlphabet, MaxData)
  /\ record = NoRecord
  /\ maxLineLength = 0
  /\ pc = [s \in Sources |-> "idle"]
  /\ mainpc = "none"
  /\ InitCommon

\* record := NewRecord(seq, time.Now(), source, data)
CallNewRecord ==
  /\ record = NoRecord
  /\ \E s \in Sources : record' = NewRecord(seq, clock, s, rawData)
  /\ UNCHANGED << maxLineLength, seq, buffers, truncated, mu, writer, file, werr,
                  closed, pc, frame, fed, dst, recin, clock, mainpc, childExited,
                  rawData >>
  /\ UNCHANGED runVars

NextNewRecord == CallNewRecord

SpecNewRecord == InitNewRecord /\ [][NextNewRecord]_vars


\* --------------------------------------------------- program specification
\* run() of cmd/ioetap/main.go: three forwarding loops (CopyAndRecord), one
\* per source, run concurrently with the orchestrator; every call of
\* writer.Write and every lock acquisition is a step of its own.
\* the bytes read from the sources: 'a' and LF
ProgAlphabet == {97, LF}

\* size of the buffer of CopyAndRecord: the capacity of every chunk it hands
\* to Record
TeeBufSize == 32768

\* outcomes of a call of the buffered writer: FALSE = success, TRUE = failure
WriterMayFail == {FALSE, TRUE}

\* r.mu.Lock() can return
CanLockNoMutex(holder) == TRUE

CanLock(holder) == holder = "free"

Running == mainpc # "exited"

\* where CopyAndRecord goes after Record returned (its error is only logged)
AfterRecordNoFlush(readErr) ==
  IF readErr = "nil" THEN "read" ELSE IF readErr = "EOF" THEN "done" ELSE "failed"

AfterRecordErrorAsEOF(readErr) ==
  IF readErr = "nil" THEN "read" ELSE "flush"

AfterRecord(readErr) ==
  IF readErr = "nil" THEN "read" ELSE IF readErr = "EOF" THEN "flush" ELSE "failed"

\* where CopyAndRecord goes when Record returned err: a recording error is
\* logged to stderr and nothing else
AfterRecordStopOnError(err, readErr) ==
  IF err # "nil" THEN "failed" ELSE AfterRecord(readErr)

AfterRecordCall(err, readErr) == AfterRecord(readErr)

\* publish the outcome m of a step of the call of caller t: on return the
\* deferred r.mu.Unlock() runs and the locals die
Apply(t, m) ==
  /\ Commit(m)
  /\ IF m.st = "ret"
     THEN /\ mu' = "free"
          /\ pc' = [pc EXCEPT ![t] = IF frame[t].op = "flush" THEN "done"
                                     ELSE AfterRecordCall(m.err, frame[t].readErr)]
          /\ frame' = [frame EXCEPT ![t] = NoFrame]
     ELSE /\ mu' = t
          /\ pc' = [pc EXCEPT ![t] = m.st]
          /\ frame' = [frame EXCEPT ![t] = m.fr]

\* number of bytes read from the three sources so far
TotalRead == Len(fed["stdin"]) + Len(fed["stdout"]) + Len(fed["stderr"])

\* n, readErr := reader.Read(buf) returning at most `most` bytes
ReadUpTo(t, most) ==
  /\ Running
  /\ pc[t] = "read"
  /\ \E chunk \in SeqsUpTo(ProgAlphabet, most) :
       \E e \in {"nil", "EOF", "err"} :
         /\ ~(chunk = <<>> /\ e = "nil")
         /\ fed' = [fed EXCEPT ![t] = fed[t] \o chunk]
         /\ frame' = [frame EXCEPT ![t] =
              [NoFrame EXCEPT !.arr = chunk, !.cap = TeeBufSize, !.readErr = e]]
         /\ pc' = [pc EXCEPT ![t] = IF chunk # <<>> THEN "fwd" ELSE AfterRecord(e)]
  /\ UNCHANGED << maxLineLength, seq, buffers, truncated, mu, writer, file, werr,
                  closed, dst, recin, clock, mainpc, childExited >>
  /\ UNCHANGED runVars
  /\ UNCHANGED recVars

\* n, readErr := reader.Read(buf) within the read budget of the model
Read(t) == ReadUpTo(t, MaxRead - TotalRead)

\* what the destination holds once writer.Write accepted the bytes of data
WriteDstNothing(d, data) == d

WriteDst(d, data) == d \o data

\* writer.Write(data): the chunk goes to the destination unmodified, or the
\* loop returns the write error after the writer accepted only the first
\* n < len(data) bytes
Forward(t) ==
  /\ Running
  /\ pc[t] = "fwd"
  /\ \E ok \in BOOLEAN :
       IF ok
       THEN /\ dst' = [dst EXCEPT ![t] = WriteDst(dst[t], frame[t].arr)]
            /\ pc' = [pc EXCEPT ![t] = "rec"]
            /\ frame' = frame
       ELSE /\ \E n \in 0..(Len(frame[t].arr) - 1) :
                 dst' = [dst EXCEPT ![t] = WriteDst(dst[t], Take(frame[t].arr, n))]
            /\ pc' = [pc EXCEPT ![t] = "failed"]
            /\ frame' = [frame EXCEPT ![t] = NoFrame]
  /\ UNCHANGED << maxLineLength, seq, buffers, truncated, mu, writer, file, werr,
                  closed, fed, recin, clock, mainpc, childExited >>
  /\ UNCHANGED runVars
  /\ UNCHANGED recVars

\* r.Record(source, data) up to r.mu.Lock(): now := time.Now()
RecordEnter(t) ==
  /\ Running
  /\ pc[t] = "rec"
  /\ frame' = [frame EXCEPT ![t].now = clock, ![t].op = "record"]
  /\ recin' = [recin EXCEPT ![t] = recin[t] \o frame[t].arr]
  /\ pc' = [pc EXCEPT ![t] = "rlock"]
  /\ UNCHANGED << maxLineLength, seq, buffers, truncated, mu, writer, file, werr,
                  closed, fed, dst, clock, mainpc, childExited >>
  /\ UNCHANGED runVars
  /\ UNCHANGED recVars

\* r.mu.Lock() in Record and the first iteration of its loop
RecordLock(t) ==
  /\ Running
  /\ pc[t] = "rlock"
  /\ CanLock(mu)
  /\ Apply(t, LoopStep(RecordBegin(Machine(frame[t], t)), maxLineLength))
  /\ UNCHANGED << maxLineLength, file, closed, fed, dst, recin, clock, mainpc,
                  childExited >>
  /\ UNCHANGED runVars
  /\ UNCHANGED recVars

\* a later iteration of the loop of Record
RecordLoop(t) ==
  /\ Running
  /\ pc[t] = "loop"
  /\ Apply(t, LoopStep(Machine(frame[t], t), maxLineLength))
  /\ UNCHANGED << maxLineLength, file, closed, fed, dst, recin, clock, mainpc,
                  childExited >>
  /\ UNCHANGED runVars
  /\ UNCHANGED recVars

\* writer.Write(jsonData)
WriteJson(t) ==
  /\ Running
  /\ pc[t] = "wjson"
  /\ \E fail \in WriterMayFail : Apply(t, JsonStep(Machine(frame[t], t), fail))
  /\ UNCHANGED << maxLineLength, file, closed, fed, dst, recin, clock, mainpc,
                  childExited >>
  /\ UNCHANGED runVars
  /\ UNCHANGED recVars

\* writer.WriteString("\n")
WriteNl(t) ==
  /\ Running
  /\ pc[t] = "wnl"
  /\ \E fail \in WriterMayFail : Apply(t, NlStep(Machine(frame[t], t), fail))
  /\ UNCHANGED << maxLineLength, file, closed, fed, dst, recin, clock, mainpc,
                  childExited >>
  /\ UNCHANGED runVars
  /\ UNCHANGED recVars

\* r.Flush(source) at EOF up to r.mu.Lock(): now := time.Now()
FlushEnter(t) ==
  /\ Running
  /\ pc[t] = "flush"
  /\ frame' = [frame EXCEPT ![t] = [NoFrame EXCEPT !.now = clock, !.op = "flush"]]
  /\ pc' = [pc EXCEPT ![t] = "flock"]
  /\ UNCHANGED << maxLineLength, seq, buffers, truncated, mu, writer, file, werr,
                  closed, fed, dst, recin, clock, mainpc, childExited >>
  /\ UNCHANGED runVars
  /\ UNCHANGED recVars

\* r.mu.Lock() in Flush and its body
FlushLock(t) ==
  /\ Running
  /\ pc[t] = "flock"
  /\ CanLock(mu)
  /\ Apply(t, FlushBody(Machine(frame[t], t)))
  /\ UNCHANGED << maxLineLength, file, closed, fed, dst, recin, clock, mainpc,
                  childExited >>
  /\ UNCHANGED runVars
  /\ UNCHANGED recVars

\* the child process exits
ChildExit ==
  /\ Running
  /\ ~childExited
  /\ childExited' = TRUE
  /\ UNCHANGED << maxLineLength, seq, buffers, truncated, mu, writer, file, werr,
                  closed, pc, frame, fed, dst, recin, clock, mainpc >>
  /\ UNCHANGED runVars
  /\ UNCHANGED recVars

\* the loops whose goroutine is added to the WaitGroup (wg.Add(1)): the
\* stdin goroutine is started without it
WaitedWithStdin == Sources

Waited == Outbound

\* the counter of the WaitGroup is zero: the goroutines of both outbound
\* loops have returned from CopyAndRecord and called wg.Done()
WgZeroStdoutOnly == pc["stdout"] \in {"done", "failed"}

WgZero == \A s \in Waited : pc[s] \in {"done", "failed"}

\* wg.Wait(): both outbound loops have returned
WgWait ==
  /\ mainpc = "wgwait"
  /\ WgZero
  /\ mainpc' = "procwait"
  /\ UNCHANGED << maxLineLength, seq, buffers, truncated, mu, writer, file, werr,
                  closed, pc, frame, fed, dst, recin, clock, childExited >>
  /\ UNCHANGED runVars
  /\ UNCHANGED recVars

\* the exit codes of the child the model considers: success and a failure
ExitCodes == {0, 3}

\* exitCode := proc.Wait(): the exit status of the child
ProcWait ==
  /\ mainpc = "procwait"
  /\ childExited
  /\ \E code \in ExitCodes : exitCode' = code
  /\ mainpc' = "close"
  /\ UNCHANGED << maxLineLength, seq, buffers, truncated, mu, writer, file, werr,
                  closed, pc, frame, fed, dst, recin, clock, childExited,
                  closeErr, fileCloses, result, created, killed >>
  /\ UNCHANGED recVars

\* the number of calls of r.file.Close() once Close has run: the file is
\* closed on the path of a failed flush too
FileClosesLeakOnError(n, flushFailed) == IF flushFailed THEN n ELSE n + 1

FileClosesAfter(n, flushFailed) == n + 1

\* what Close returns: the error of the flush, else the one of file.Close()
CloseReturn(flushFailed, closeFailed) ==
  IF flushFailed THEN "flush" ELSE IF closeFailed THEN "close" ELSE "nil"

\* the deferred rec.Close(): under the lock, flush the writer and close the
\* file (the file is closed also when the flush fails)
Close ==
  /\ mainpc = "close"
  /\ CanLock(mu)
  /\ \E fail \in WriterMayFail, closeFailed \in BOOLEAN :
       LET flushFailed == werr \/ fail IN
       /\ IF flushFailed
          THEN /\ werr' = TRUE
               /\ UNCHANGED << writer, file >>
          ELSE /\ file' = file \o writer
               /\ writer' = <<>>
               /\ werr' = werr
       /\ fileCloses' = FileClosesAfter(fileCloses, flushFailed)
       /\ closed' = (FileClosesAfter(fileCloses, flushFailed) > 0)
       /\ closeErr' = CloseReturn(flushFailed, closeFailed)
  /\ mainpc' = "closed"
  /\ UNCHANGED << maxLineLength, seq, buffers, truncated, mu, pc, frame, fed, dst,
                  recin, clock, childExited, exitCode, result, created, killed >>
  /\ UNCHANGED recVars

\* the value run returns: the deferred Close runs after the return value is
\* set and its error is dropped
RunResult(code, cerr) == code

\* run returns and main calls os.Exit: every goroutine stops
Exit ==
  /\ mainpc = "closed"
  /\ mainpc' = "exited"
  /\ result' = RunResult(exitCode, closeErr)
  /\ UNCHANGED << maxLineLength, seq, buffers, truncated, mu, writer, file, werr,
                  closed, pc, frame, fed, dst, recin, clock, childExited,
                  exitCode, closeErr, fileCloses, created, killed >>
  /\ UNCHANGED recVars

Init ==
  /\ created = TRUE
  /\ rawData = <<>>
  /\ record = NoRecord
  /\ maxLineLength \in 0..MaxProgLimit
  /\ pc = [s \in Sources |-> "read"]
  /\ mainpc = "wgwait"
  /\ InitCommon

Next ==
  \/ \E t \in Sources :
       \/ Read(t) \/ Forward(t) \/ RecordEnter(t) \/ RecordLock(t) \/ RecordLoop(t)
       \/ WriteJson(t) \/ WriteNl(t) \/ FlushEnter(t) \/ FlushLock(t)
  \/ ChildExit \/ WgWait \/ ProcWait \/ Close \/ Exit

Spec == Init /\ [][Next]_vars

\* ------------------------------------------------ run() in whole iterations
\* run() with every iteration of CopyAndRecord taken as one step: the read,
\* the write to the destination and the call of Record, which runs under
\* r.mu from its first to its last access of the recorder.
\* okWrites: the writer calls that succeed before the writer starts failing
CopyChunk(t) ==
  /\ Running
  /\ pc[t] = "read"
  /\ mu = "free"
  /\ \E chunk \in SeqsUpTo(ProgAlphabet, MaxRunRead - TotalRead) \ {<<>>} :
       \E e \in {"nil", "EOF", "err"}, ok \in BOOLEAN, okWrites \in 0..(2 * Len(chunk)) :
         /\ fed' = [fed EXCEPT ![t] = fed[t] \o chunk]
         /\ IF ok
            THEN LET fr == [NoFrame EXCEPT !.arr = chunk, !.cap = TeeBufSize,
                                           !.now = clock, !.readErr = e]
                     m == RunSteps(RecordBegin(Machine(fr, t)), maxLineLength, okWrites)
                 IN /\ Commit(m)
                    /\ dst' = [dst EXCEPT ![t] = WriteDst(dst[t], chunk)]
                    /\ recin' = [recin EXCEPT ![t] = recin[t] \o chunk]
                    /\ pc' = [pc EXCEPT ![t] = AfterRecordCall(m.err, e)]
            ELSE /\ \E n \in 0..(Len(chunk) - 1) :
                      dst' = [dst EXCEPT ![t] = WriteDst(dst[t], Take(chunk, n))]
                 /\ pc' = [pc EXCEPT ![t] = "failed"]
                 /\ UNCHANGED << seq, buffers, truncated, writer, werr, recin >>
  /\ UNCHANGED << maxLineLength, mu, file, closed, frame, clock, mainpc, childExited >>
  /\ UNCHANGED runVars
  /\ UNCHANGED recVars

\* a read that returns no byte: end-of-stream or an error
ReadEnd(t) == ReadUpTo(t, 0)

\* r.Flush(source) at io.EOF, then CopyAndRecord returns nil
CopyFlush(t) ==
  /\ Running
  /\ pc[t] = "flush"
  /\ mu = "free"
  /\ \E okWrites \in 0..2 :
       LET fr == [NoFrame EXCEPT !.now = clock, !.op = "flush"]
           m == RunSteps(FlushBody(Machine(fr, t)), maxLineLength, okWrites)
       IN Commit(m)
  /\ pc' = [pc EXCEPT ![t] = "done"]
  /\ frame' = [frame EXCEPT ![t] = NoFrame]
  /\ UNCHANGED << maxLineLength, mu, file, closed, fed, dst, recin, clock, mainpc,
                  childExited >>
  /\ UNCHANGED runVars
  /\ UNCHANGED recVars

\* where run() goes after NewRecorder: on an error it kills the child
AfterNewRecorderIgnoreError(ok) == "wgwait"

AfterNewRecorder(ok) == IF ok THEN "wgwait" ELSE "kill"

\* rec, err := recorder.NewRecorder(filename, opts.MaxLineLength): os.Create
\* succeeds or fails; after it run() starts the three goroutines
NewRecorder ==
  /\ mainpc = "newrec"
  /\ \E ok \in BOOLEAN :
       /\ created' = ok
       /\ mainpc' = AfterNewRecorder(ok)
       /\ pc' = IF AfterNewRecorder(ok) = "wgwait"
                THEN [s \in Sources |-> "read"] ELSE pc
  /\ UNCHANGED << maxLineLength, seq, buffers, truncated, mu, writer, file, werr,
                  closed, frame, fed, dst, recin, clock, childExited,
                  exitCode, closeErr, fileCloses, result, killed >>
  /\ UNCHANGED recVars

\* _ = proc.Signal(os.Kill)
Kill ==
  /\ mainpc = "kill"
  /\ killed' = TRUE
  /\ mainpc' = "killwait"
  /\ UNCHANGED << maxLineLength, seq, buffers, truncated, mu, writer, file, werr,
                  closed, pc, frame, fed, dst, recin, clock, childExited,
                  exitCode, closeErr, fileCloses, result, created >>
  /\ UNCHANGED recVars

\* proc.Wait() and return 1: main calls os.Exit(1)
KillWait ==
  /\ mainpc = "killwait"
  /\ childExited
  /\ result' = 1
  /\ mainpc' = "exited"
  /\ UNCHANGED << maxLineLength, seq, buffers, truncated, mu, writer, file, werr,
                  closed, pc, frame, fed, dst, recin, clock, childExited,
                  exitCode, closeErr, fileCloses, created, killed >>
  /\ UNCHANGED recVars

\* run() once the child is started: no Recorder yet, no goroutine started
InitRun ==
  /\ created = FALSE
  /\ rawData = <<>>
  /\ record = NoRecord
  /\ maxLineLength \in 0..MaxProgLimit
  /\ pc = [s \in Sources |-> "unstarted"]
  /\ mainpc = "newrec"
  /\ InitCommon

NextRun ==
  \/ \E t \in Sources : CopyChunk(t) \/ ReadEnd(t) \/ CopyFlush(t)
  \/ NewRecorder \/ Kill \/ KillWait
  \/ ChildExit \/ WgWait \/ ProcWait \/ Close \/ Exit

\* the steps of run() itself
MainProgress ==
  NewRecorder \/ Kill \/ KillWait \/ WgWait \/ ProcWait \/ Close \/ Exit

\* the Go scheduler runs every goroutine that can take a step; when a read
\* from a source returns and when the child exits is up to the outside
Fairness ==
  /\ WF_vars(MainProgress)
  /\ \A t \in Sources : WF_vars(CopyFlush(t))

SpecRun == InitRun /\ [][NextRun]_vars /\ Fairness

\* ------------------------------------------- calls of Record as time passes
\* Three callers of Record; the body of a call, which runs under the lock,
\* is one step, and the clock advances between the steps.

\* r.Record(source, data) up to r.mu.Lock(), for a chunk just read and
\* forwarded: now := time.Now()
RecordNow(t) ==
  /\ pc[t] = "idle"
  /\ \E chunk \in SeqsUpTo(ProgAlphabet, MaxCallRead - TotalRead) \ {<<>>} :
       /\ fed' = [fed EXCEPT ![t] = fed[t] \o chunk]
       /\ dst' = [dst EXCEPT ![t] = WriteDst(dst[t], chunk)]
       /\ recin' = [recin EXCEPT ![t] = recin[t] \o chunk]
       /\ frame' = [frame EXCEPT ![t] =
            [NoFrame EXCEPT !.arr = chunk, !.cap = TeeBufSize, !.now = clock,
                            !.op = "record"]]
  /\ pc' = [pc EXCEPT ![t] = "rlock"]
  /\ UNCHANGED << maxLineLength, seq, buffers, truncated, mu, writer, file, werr,
                  closed, clock, mainpc, childExited >>
  /\ UNCHANGED runVars
  /\ UNCHANGED recVars

\* r.mu.Lock() and the rest of Record up to its return
RecordLocked(t) ==
  /\ pc[t] = "rlock"
  /\ CanLock(mu)
  /\ Commit(RunSteps(RecordBegin(Machine(frame[t], t)), maxLineLength, NoFailure))
  /\ frame' = [frame EXCEPT ![t] = NoFrame]
  /\ pc' = [pc EXCEPT ![t] = "idle"]
  /\ UNCHANGED << maxLineLength, mu, file, closed, fed, dst, recin, clock, mainpc,
                  childExited >>
  /\ UNCHANGED runVars
  /\ UNCHANGED recVars

\* time passes
Tick ==
  /\ clock < MaxClock
  /\ clock' = clock + 1
  /\ UNCHANGED << maxLineLength, seq, buffers, truncated, mu, writer, file, werr,
                  closed, pc, frame, fed, dst, recin, mainpc, childExited >>
  /\ UNCHANGED runVars
  /\ UNCHANGED recVars

InitCalls ==
  /\ created = TRUE
  /\ rawData = <<>>
  /\ record = NoRecord
  /\ maxLineLength \in 0..MaxProgLimit
  /\ pc = [s \in Sources |-> "idle"]
  /\ mainpc = "wgwait"
  /\ InitCommon

NextCalls == (\E t \in Sources : RecordNow(t) \/ RecordLocked(t)) \/ Tick

SpecCalls == InitCalls /\ [][NextCalls]_vars

\* ------------------------------------------------------- derived notions
\* the log: what is in the file, and before Close what the writer holds
Log == file \o (IF closed THEN <<>> ELSE writer)

IsJsonTok(t) == t.tok = "json"

\* the records of the log, in the order they were written
LogRecords ==
  LET toks == SelectSeq(Log, IsJsonTok) IN [i \in 1..Len(toks) |-> toks[i].rec]

\* the records of one source, in the order they were written
RecordsOf(s) ==
  LET IsOf(t) == t.tok = "json" /\ t.rec.source = s
      toks == SelectSeq(Log, IsOf)
  IN [i \in 1..Len(toks) |-> toks[i].rec]

\* base64.StdEncoding.DecodeString on the index representation
RECURSIVE Base64Decode(_)
Base64Decode(e) ==
  IF Len(e) < 4 THEN <<>>
  ELSE (IF e[3] = Base64Pad
        THEN << e[1] * 4 + e[2] \div 16 >>
        ELSE IF e[4] = Base64Pad
        THEN << e[1] * 4 + e[2] \div 16, (e[2] % 16) * 16 + e[3] \div 4 >>
        ELSE << e[1] * 4 + e[2] \div 16, (e[2] % 16) * 16 + e[3] \div 4,
                (e[3] % 4) * 64 + e[4] >>)
       \o Base64Decode(Drop(e, 4))

\* the bytes a reader of the log gets from one record: content followed by end
RecordBytes(r) ==
  (IF r.encoding = "base64" THEN Base64Decode(r.content) ELSE r.content) \o r.end

RECURSIVE ConcatBytes(_)
ConcatBytes(rs) ==
  IF rs = <<>> THEN <<>> ELSE RecordBytes(rs[1]) \o ConcatBytes(Tail(rs))

\* the complete lines of a byte stream, each with its LF
RECURSIVE CompleteLines(_)
CompleteLines(bytes) ==
  IF IndexByte(bytes, LF) = -1 THEN <<>>
  ELSE << Take(bytes, IndexByte(bytes, LF) + 1) >>
       \o CompleteLines(Drop(bytes, IndexByte(bytes, LF) + 1))

\* the bytes after the last LF of a byte stream
RECURSIVE PartialLine(_)
PartialLine(bytes) ==
  IF IndexByte(bytes, LF) = -1 THEN bytes
  ELSE PartialLine(Drop(bytes, IndexByte(bytes, LF) + 1))

\* the content of a record as bytes of the line it was made from
ContentBytes(r) ==
  IF r.encoding = "base64" THEN Base64Decode(r.content) ELSE r.content

\* --------------------------------------------------------------- claims

\* C4: round trip.  For one stream, when no record of the stream is truncated,
\* every record is text or base64 and the stream is not discarding, the
\* concatenation of content followed by end over the stream's records in
\* emission order (base64 decoded), followed by the bytes still pending,
\* equals the bytes fed to the stream; after Flush nothing is pending, so the
\* records alone reproduce the stream.
RoundTrip ==
  \A s \in Sources :
    ( /\ \A i \in 1..Len(RecordsOf(s)) :
           /\ ~RecordsOf(s)[i].truncated
           /\ RecordsOf(s)[i].encoding \in {"text", "base64"}
      /\ ~truncated[s]
      /\ ~werr )
    => /\ ConcatBytes(RecordsOf(s)) \o buffers[s] = recin[s]
       /\ (pc[s] = "done" => ConcatBytes(RecordsOf(s)) = recin[s])

\* a flushed stream of MaxFed bytes with a text record ending in CR LF, a
\* base64 record and a final record without terminator
RoundTripWitness ==
  /\ pc[AsmSource] = "done"
  /\ maxLineLength = 0
  /\ Len(recin[AsmSource]) >= 4
  /\ Len(RecordsOf(AsmSource)) >= 2
  /\ \A i \in 1..Len(RecordsOf(AsmSource)) :
       /\ ~RecordsOf(AsmSource)[i].truncated
       /\ RecordsOf(AsmSource)[i].encoding \in {"text", "base64"}
  /\ \E i \in 1..Len(RecordsOf(AsmSource)) : RecordsOf(AsmSource)[i].encoding = "base64"
  /\ \E i \in 1..Len(RecordsOf(AsmSource)) : RecordsOf(AsmSource)[i].end # <<>>
  /\ RecordsOf(AsmSource)[Len(RecordsOf(AsmSource))].end = <<>>

\* C5: reassembly.  While a stream has not been flushed, it has exactly one
\* record per LF fed, however the bytes were split into Record calls, and the
\* record of a line within the limit (or with limit 0) has the content, end
\* and truncated values of that line fed in one chunk.
Reassembly ==
  \A s \in Sources :
    (pc[s] = "idle" /\ ~werr) =>
      /\ Len(RecordsOf(s)) = Len(CompleteLines(recin[s]))
      /\ \A i \in 1..Len(RecordsOf(s)) :
           (i <= Len(CompleteLines(recin[s]))
              /\ ~ExceedsLimit(Len(CompleteLines(recin[s])[i]), maxLineLength))
           => LET r == RecordsOf(s)[i]
                  one == NewRecord(0, 0, s, CompleteLines(recin[s])[i])
              IN /\ r.content = one.content
                 /\ r.end = one.end
                 /\ r.encoding = one.encoding
                 /\ r.truncated = FALSE

\* C6: truncation exactness.  With a limit > 0, the content of every record
\* written with truncated = true has exactly `limit` bytes.
TruncationExact ==
  \A i \in 1..Len(LogRecords) :
    (LogRecords[i].truncated /\ maxLineLength > 0)
    => Len(ContentBytes(LogRecords[i])) = maxLineLength

\* C7: with a limit > 0, the i-th record of a stream that has not been
\* flushed is truncated if and only if the i-th line received (content plus
\* terminator) is longer than the limit, and a line within the limit is
\* written with its full content.
TruncatedIffExceeds ==
  \A s \in Sources :
    (pc[s] = "idle" /\ ~werr /\ maxLineLength > 0) =>
      \A i \in 1..Len(RecordsOf(s)) :
        /\ i <= Len(CompleteLines(recin[s]))
        /\ RecordsOf(s)[i].truncated
             <=> Len(CompleteLines(recin[s])[i]) > maxLineLength
        /\ Len(CompleteLines(recin[s])[i]) <= maxLineLength
             => RecordBytes(RecordsOf(s)[i]) = CompleteLines(recin[s])[i]
                \/ RecordsOf(s)[i].encoding = "json"

\* C8: the end field of a truncated text record written on arrival of its LF
\* is the line ending the line had in the stream: CR LF when the LF directly
\* follows a CR, LF otherwise.
TruncatedEndIsTrueEnding ==
  \A s \in Sources :
    (pc[s] = "idle" /\ ~werr /\ maxLineLength > 0) =>
      \A i \in 1..Len(RecordsOf(s)) :
        (i <= Len(CompleteLines(recin[s])) /\ RecordsOf(s)[i].truncated
           /\ RecordsOf(s)[i].encoding = "text")
        => RecordsOf(s)[i].end = extractLineEndingFromLine(CompleteLines(recin[s])[i])

\* C9: with limit 0 no record is ever written with truncated = true and no
\* stream is ever in Discarding mode.
UnlimitedNeverTruncates ==
  maxLineLength = 0 =>
    /\ \A s \in Sources : ~truncated[s]
    /\ \A i \in 1..Len(writer) : writer[i].tok = "json" => ~writer[i].rec.truncated
    /\ \A i \in 1..Len(file) : file[i].tok = "json" => ~file[i].rec.truncated
    /\ \A s \in Sources : frame[s].wtrunc = FALSE

\* limit 0, a line of MaxFed bytes written as one record and bytes pending
UnlimitedWitness ==
  /\ maxLineLength = 0
  /\ \E i \in 1..Len(LogRecords) : Len(RecordBytes(LogRecords[i])) >= 3
  /\ Len(buffers[AsmSource]) >= 1

\* everything the buffered writer accepted, in order
WriterStream == file \o writer

WholeLines ==
  /\ \A i \in 1..Len(WriterStream) :
       /\ (WriterStream[i].tok = "json" /\ i < Len(WriterStream))
            => WriterStream[i + 1].tok = "nl"
       /\ WriterStream[i].tok = "nl"
            => (i > 1 /\ WriterStream[i - 1].tok = "json")
  /\ (mu = "free" /\ ~werr /\ WriterStream # <<>>)
       => WriterStream[Len(WriterStream)].tok = "nl"
  /\ \A i \in 1..Len(Log) :
       (Log[i].tok = "json" /\ i < Len(Log)) => Log[i + 1].tok = "nl"

\* one loop is between a record and its newline, holding the lock, while
\* another loop waits for the lock, and an earlier line is in the stream
WholeLinesWitness ==
  \E t \in Sources :
    /\ pc[t] = "wnl"
    /\ \E u \in Sources \ {t} : pc[u] \in {"rlock", "flock"}
    /\ Len(WriterStream) >= 3

CloseAfterLoopsAndExit ==
  (closed \/ mainpc \in {"close", "closed", "exited"}) =>
    /\ \A s \in Outbound : pc[s] \in {"done", "failed"}
    /\ \A s \in Outbound : mu # s
    /\ childExited

\* the sink is closed with records of both outbound streams in the file
CloseAfterLoopsAndExitWitness ==
  /\ closed
  /\ ~werr
  /\ pc["stdout"] = "done" /\ pc["stderr"] = "done"
  /\ \E i \in 1..Len(file) : file[i].tok = "json" /\ file[i].rec.source = "stdout"
  /\ \E i \in 1..Len(file) : file[i].tok = "json" /\ file[i].rec.source = "stderr"

\* a forwarding loop has seen end-of-stream: its read returned io.EOF
SeenEOF(s) == pc[s] \in {"flush", "done"} \/ frame[s].op = "flush"

\* C12: once the child has exited and both outbound loops have seen
\* end-of-stream, the run eventually exits with the exit code of the child,
\* whatever the stdin loop does.
CompletesWithoutStdin ==
  (childExited /\ \A s \in Outbound : SeenEOF(s))
    ~> (mainpc = "exited" /\ result = exitCode)

\* the run has exited with a non-zero exit code of the child while the stdin
\* loop is still in its read
CompletesWithoutStdinWitness ==
  /\ mainpc = "exited"
  /\ result = exitCode /\ exitCode # 0
  /\ pc["stdin"] = "read"
  /\ fed["stdin"] = <<>>
  /\ \A s \in Outbound : pc[s] = "done"

\* a caller is inside a Record or Flush call
InCall(s) == pc[s] \in {"rlock", "loop", "wjson", "wnl", "flock"}

\* C13: Close is invoked exactly once and only after all feed/flush activity
\* has completed: once Close has run, no stream is inside a Record or Flush
\* call (none is in progress and none has started since).
NoCallAfterClose ==
  /\ fileCloses <= 1
  /\ closeErr # "none" => \A s \in Sources : ~InCall(s)

\* a is a prefix of b
IsPrefix(a, b) == Len(a) <= Len(b) /\ Take(b, Len(a)) = a

\* C14: every chunk goes unmodified to the destination before it is handed
\* to Record: at every moment the bytes delivered to a destination are the
\* bytes read from its source, in order (all of them but the chunk the loop
\* has read and not yet written, or failed to write), and the bytes given to
\* the recorder are a prefix of the bytes delivered.
ForwardBeforeRecord ==
  \A s \in Sources :
    /\ IsPrefix(dst[s], fed[s])
    /\ IsPrefix(recin[s], dst[s])
    /\ pc[s] = "fwd" => fed[s] = dst[s] \o frame[s].arr
    /\ pc[s] \notin {"fwd", "failed"} => dst[s] = fed[s]
    /\ pc[s] = "rec" => dst[s] = recin[s] \o frame[s].arr
    /\ pc[s] \notin {"rec", "failed"} => recin[s] = dst[s]

\* the stdout loop has written its second chunk to the destination and has
\* not yet handed it to Record
ForwardBeforeRecordWitness ==
  /\ pc["stdout"] = "rec"
  /\ recin["stdout"] # <<>>
  /\ Len(dst["stdout"]) > Len(recin["stdout"])
  /\ dst["stdout"] = fed["stdout"]

\* C15: a recording error never stops or alters forwarding: whenever a
\* Record or Flush call of a forwarding loop returns, with an error or
\* without, nothing was taken from or added to what was read and delivered,
\* and the loop goes on as the read result alone says: to the next read
\* after a read without error, to Flush after io.EOF and from Flush to the
\* return of nil; it returns an error only for a read error.
RecordErrorIgnored ==
  [][\A s \in Sources :
       (InCall(s) /\ pc'[s] \notin {"rlock", "loop", "wjson", "wnl", "flock"}) =>
         /\ pc'[s] = (IF frame[s].op = "flush" THEN "done"
                      ELSE IF frame[s].readErr = "nil" THEN "read"
                      ELSE IF frame[s].readErr = "EOF" THEN "flush"
                      ELSE "failed")
         /\ dst' = dst /\ fed' = fed /\ recin' = recin]_vars

\* the first write of the stdout loop failed, so no record of stdout is in
\* the log; the loop has nevertheless read and forwarded a later chunk and
\* has returned nil at end-of-stream
RecordErrorIgnoredWitness ==
  /\ werr
  /\ pc["stdout"] = "done"
  /\ Len(fed["stdout"]) >= 2
  /\ fed["stdout"][1] = LF
  /\ dst["stdout"] = fed["stdout"]
  /\ recin["stdout"] = fed["stdout"]
  /\ RecordsOf("stdout") = <<>>

\* C16: a failed write drops only the record it was writing: the other
\* complete lines of the chunk are still taken to writeRecord and the
\* trailing partial line is still buffered.  With limit 0, when no call is
\* in progress and no stream has been flushed, writeRecord has been called
\* once per complete line handed to Record (each call takes one sequence
\* number) and the buffer of every stream holds the bytes after its last LF.
OnlyFailedRecordDropped ==
  (maxLineLength = 0 /\ \A s \in Sources : ~InCall(s) /\ pc[s] # "done") =>
    /\ seq = Len(CompleteLines(recin["stdin"])) + Len(CompleteLines(recin["stdout"]))
              + Len(CompleteLines(recin["stderr"]))
    /\ \A s \in Sources : buffers[s] = PartialLine(recin[s])

\* C17: writeRecord advances the counter exactly once before it serializes
\* and writes, whether the write then fails or not, and a number once taken
\* is never given again: while a record is being written the counter is one
\* above its number and no record accepted by the writer carries that
\* number; every number in the sink is below the counter; under any pattern
\* of write failures no two records accepted by the writer carry the same
\* number.
SeqNeverReused ==
  /\ \A i, j \in 1..Len(WriterStream) :
       (WriterStream[i].tok = "json" /\ WriterStream[j].tok = "json"
          /\ WriterStream[i].rec.seq = WriterStream[j].rec.seq) => i = j
  /\ \A i \in 1..Len(WriterStream) :
       WriterStream[i].tok = "json" => WriterStream[i].rec.seq < seq
  /\ \A s \in Sources :
       /\ pc[s] \in {"wjson", "wnl"} => seq = frame[s].wseq + 1
       /\ pc[s] = "wjson" =>
            \A i \in 1..Len(WriterStream) :
              WriterStream[i].tok = "json" => WriterStream[i].rec.seq # frame[s].wseq

\* record 0 is in the sink, the write of record 1 failed and its call has
\* returned: the counter stands at 2 and number 1 is in no record
SeqNeverReusedWitness ==
  /\ werr
  /\ seq = 2
  /\ \A s \in Sources : ~InCall(s)
  /\ Len(WriterStream) = 2
  /\ WriterStream[1].tok = "json" /\ WriterStream[1].rec.seq = 0

\* C18: Close flushes the writer first and then closes the file, and it
\* closes the file on every path.  The step in which Close runs calls
\* file.Close() exactly once, whatever happened before; it returns the flush
\* error exactly when the flush failed, which it does when an earlier write
\* failed; when the flush succeeded everything the writer held is in the
\* file and the writer is empty.  file.Close() is never called a second
\* time.
CloseFlushesThenReleases ==
  [][/\ fileCloses' <= 1
     /\ (closeErr = "none" /\ closeErr' # "none") =>
          /\ fileCloses = 0 /\ fileCloses' = 1
          /\ closed'
          /\ werr => closeErr' = "flush"
          /\ closeErr' = "flush" <=> werr'
          /\ closeErr' # "flush" => (file' = file \o writer /\ writer' = <<>>)]_vars

\* Close has run after a failed write: the flush error was returned, a
\* record the writer had accepted never reached the file, and the file has
\* been closed once
CloseFlushesThenReleasesWitness ==
  /\ closeErr = "flush"
  /\ fileCloses = 1
  /\ closed
  /\ writer # <<>>
  /\ file = <<>>

\* C19: a failure of the final flush or of closing the sink is the final
\* result: when Close returned an error, the status the run exits with is
\* not the success status 0.
CloseFailureSurfaced ==
  (mainpc = "exited" /\ closeErr \in {"flush", "close"}) => result # 0

\* C20: Flush on a stream with pending bytes writes exactly one record, the
\* last of the stream, and the end of that record is empty.
FlushEndEmpty ==
  [][\A s \in Sources :
       (pc[s] = "idle" /\ pc'[s] = "done" /\ buffers[s] # <<>> /\ ~werr') =>
         /\ Len(RecordsOf(s)') = Len(RecordsOf(s)) + 1
         /\ RecordsOf(s)'[Len(RecordsOf(s)')].end = <<>>]_vars

\* C21: the record Flush writes has truncated = true exactly when the
\* stream was in Discarding mode when Flush took the lock, and it carries the
\* pending bytes; from that moment on, whether the write then fails or not,
\* the stream is in Accumulating mode with an empty pending buffer, and it
\* is so when Flush has returned.
FlushTruncatedIffDiscarding ==
  [][\A s \in Sources :
       /\ (pc[s] = "flock" /\ pc'[s] # "flock") =>
            /\ buffers'[s] = <<>> /\ ~truncated'[s]
            /\ buffers[s] = <<>> => (pc'[s] = "done" /\ WriterStream' = WriterStream)
            /\ buffers[s] # <<>> =>
                 /\ pc'[s] = "wjson"
                 /\ frame'[s].wtrunc = truncated[s]
                 /\ frame'[s].wdata = buffers[s]
       /\ (frame[s].op = "flush" /\ pc[s] = "wjson" /\ pc'[s] = "wnl") =>
            /\ Len(WriterStream') = Len(WriterStream) + 1
            /\ WriterStream'[Len(WriterStream')].rec.source = s
            /\ WriterStream'[Len(WriterStream')].rec.truncated = frame[s].wtrunc
       /\ (frame[s].op = "flush" /\ pc'[s] = "done") =>
            (buffers'[s] = <<>> /\ ~truncated'[s])]_vars

\* stdout was discarding at end-of-stream with its pending bytes capped at
\* the limit: Flush has written them as a truncated record and has returned
FlushTruncatedIffDiscardingWitness ==
  /\ pc["stdout"] = "done"
  /\ maxLineLength = 1
  /\ fed["stdout"] = <<97, 97>>
  /\ Len(RecordsOf("stdout")) = 1
  /\ RecordsOf("stdout")[1].truncated
  /\ RecordsOf("stdout")[1].content = <<97>>
  /\ buffers["stdout"] = <<>> /\ ~truncated["stdout"]

\* C22: Flush on a stream with no pending bytes is a no-op.  In every state
\* and for every stream whose buffer is empty, a call of Flush (even with a
\* writer that fails at its first call) returns nil with the counter, the
\* writer and the buffer as they were; a stream whose Flush has returned has
\* an empty buffer, so a second Flush is such a call.
FlushEmptyIsNoOp ==
  \A s \in Sources :
    /\ pc[s] = "done" => buffers[s] = <<>>
    /\ buffers[s] = <<>> =>
         LET m == RunSteps(FlushBody(Machine([NoFrame EXCEPT !.op = "flush"], s)),
                           maxLineLength, 0)
         IN /\ m.st = "ret" /\ m.err = "nil"
            /\ m.seq = seq
            /\ m.writer = writer
            /\ m.werr = werr
            /\ m.bufS = <<>> /\ m.truncS = truncated[s]

\* the stdout loop read one complete line and then end-of-stream: its Flush
\* found nothing pending and has returned; one record is in the sink and
\* the counter stands at 1
FlushEmptyIsNoOpWitness ==
  /\ pc["stdout"] = "done"
  /\ fed["stdout"] = <<97, LF>>
  /\ seq = 1
  /\ ~werr
  /\ Len(WriterStream) = 2

Bytes(bs) == {bs[i] : i \in 1..Len(bs)}

\* C24: stream isolation, for every interleaving of the calls on the three
\* streams: a step of a Record or Flush call of one stream leaves the
\* pending buffer and the truncation flag of every other stream unchanged,
\* and every byte of a record with source s is a byte that was handed to
\* Record for s.
StreamIsolation ==
  [][/\ \A s, u \in Sources :
          (s # u /\ InCall(u) /\ (pc'[u] # pc[u] \/ frame'[u] # frame[u])) =>
            (buffers'[s] = buffers[s] /\ truncated'[s] = truncated[s])
     /\ \A s \in Sources :
          (buffers'[s] # buffers[s] \/ truncated'[s] # truncated[s]) => InCall(s)
     /\ \A i \in 1..Len(WriterStream') :
          WriterStream'[i].tok = "json" =>
            Bytes(RecordBytes(WriterStream'[i].rec))
              \subseteq Bytes(recin'[WriterStream'[i].rec.source])]_vars

\* stdout holds "a" pending while the stderr loop has recorded an empty line
\* and has flushed: the record of stderr holds no byte of stdout and the
\* buffer of stdout is as stdout left it
StreamIsolationWitness ==
  /\ buffers["stdout"] = <<97>>
  /\ pc["stdout"] = "read"
  /\ pc["stderr"] = "done"
  /\ recin["stderr"] = <<LF>>
  /\ Len(RecordsOf("stderr")) = 1
  /\ RecordBytes(RecordsOf("stderr")[1]) = <<LF>>
  /\ buffers["stderr"] = <<>>

\* C26: when creating the sink fails there is no Recorder and the run fails
\* at once: no forwarding loop is started, nothing is read, forwarded or
\* recorded, the child is killed and waited for, and the run exits with
\* status 1 without calling Close.
SinkCreationFailureIsFatal ==
  /\ ~created =>
       /\ \A s \in Sources : pc[s] = "unstarted"
       /\ \A s \in Sources : fed[s] = <<>> /\ dst[s] = <<>> /\ recin[s] = <<>>
       /\ seq = 0 /\ writer = <<>> /\ file = <<>>
       /\ closeErr = "none" /\ fileCloses = 0
       /\ mainpc \in {"newrec", "kill", "killwait", "exited"}
       /\ mainpc \in {"killwait", "exited"} => killed
       /\ mainpc = "exited" => (result = 1 /\ childExited)
  /\ killed => ~created

\* the run has exited with status 1 after NewRecorder failed
SinkCreationFailureIsFatalWitness ==
  /\ ~created
  /\ mainpc = "exited"
  /\ result = 1
  /\ killed /\ childExited

\* C25: a read failure other than end-of-stream ends only the loop of the
\* stream it happened on: that loop returns the error (after forwarding and
\* recording the bytes the failing read delivered) without holding the lock,
\* and the step changes nothing of the other two loops, of run() or of the
\* child; a loop returns an error only for a read error or a destination
\* write error, and the child is never killed for it.
ReadFailureEndsOnlyItsLoop ==
  [][\A t \in Sources :
       /\ (pc[t] = "read" /\ pc'[t] # "read" /\ frame'[t].readErr = "err"
              /\ frame'[t].arr = <<>>) => pc'[t] = "failed"
       /\ (InCall(t) /\ frame[t].op = "record" /\ frame[t].readErr = "err"
              /\ pc'[t] \notin {"rlock", "loop", "wjson", "wnl", "flock"})
            => pc'[t] = "failed"
       /\ (pc[t] \notin {"failed", "fwd"} /\ pc'[t] = "failed") =>
            /\ frame[t].readErr = "err" \/ frame'[t].readErr = "err"
            /\ \A u \in Sources \ {t} : pc'[u] = pc[u] /\ frame'[u] = frame[u]
            /\ mu' # t
            /\ mainpc' = mainpc
            /\ childExited' = childExited
            /\ ~killed /\ ~killed'
  ]_vars

\* the stdout loop has returned a read error after forwarding and recording
\* the bytes of the failing read, while the stderr loop is inside Record,
\* run() still waits for the loops and the child is alive
ReadFailureEndsOnlyItsLoopWitness ==
  /\ pc["stdout"] = "failed"
  /\ fed["stdout"] # <<>>
  /\ recin["stdout"] = fed["stdout"]
  /\ InCall("stderr")
  /\ pc["stdin"] = "read"
  /\ mainpc = "wgwait"
  /\ ~childExited /\ ~killed

\* C27: json has priority over text: every input that is valid UTF-8 and
\* whose trimmed bytes are exactly one well-formed JSON value gets encoding
\* json, and an input whose trimmed bytes are not exactly one JSON value
\* (trailing data, several values) never does.
JsonBeforeText ==
  record # NoRecord =>
    /\ (Utf8Valid(rawData) /\ JsonValid(TrimSpace(rawData)))
         => record.encoding = "json"
    /\ record.encoding = "json" => JsonValid(TrimSpace(rawData))

\* C28: every input that holds invalid UTF-8 gets encoding base64, its
\* content is the base64 encoding of the whole input, terminator included,
\* and its end is empty.
InvalidUtf8IsBase64 ==
  (record # NoRecord /\ ~Utf8Valid(rawData)) =>
    /\ record.encoding = "base64"
    /\ record.content = Base64Encode(rawData)
    /\ record.end = <<>>

TextSplitsTrailingCRLF ==
  /\ record.encoding = "text" =>
       /\ record.content \o record.end = rawData
       /\ \A i \in 1..Len(record.end) : record.end[i] \in {CR, LF}
       /\ record.content # <<>> =>
            record.content[Len(record.content)] \notin {CR, LF}
  /\ (record # NoRecord /\ rawData = <<>>) =>
       /\ record.encoding = "text"
       /\ record.content = <<>>
       /\ record.end = <<>>

\* a text record whose content keeps an inner CR and whose end is CR LF
TextSplitsTrailingCRLFWitness ==
  /\ record.encoding = "text"
  /\ record.end = <<CR, LF>>
  /\ \E i \in 1..Len(record.content) : record.content[i] = CR

\* the fields of a record that do not depend on when and where it was written
RecordView(r) ==
  [content |-> r.content, end |-> r.end, encoding |-> r.encoding,
   truncated |-> r.truncated]

\* the views of the records among the tokens w, in order
ViewsOf(w) ==
  LET toks == SelectSeq(w, IsJsonTok)
  IN [i \in 1..Len(toks) |-> RecordView(toks[i].rec)]

\* what Record(source, chunk) by a caller whose slice has capacity cp writes
\* on a stream in Accumulating mode with an empty buffer
FreshRun(chunk, cp, max) ==
  LET fr == [NoFrame EXCEPT !.arr = chunk, !.cap = cp]
      m0 == [fr |-> fr, source |-> AsmSource, bufS |-> <<>>, truncS |-> FALSE,
             seq |-> 0, writer |-> <<>>, werr |-> FALSE, st |-> "loop",
             err |-> "nil"]
  IN RunSteps(RecordBegin(m0), max, NoFailure)

\* the records that call writes
FreshRecords(chunk, cp, max) == ViewsOf(FreshRun(chunk, cp, max).writer)

\* 1-based position of the k-th LF of bytes, Len(bytes) when there is none
RECURSIVE NthLF(_, _)
NthLF(bytes, k) ==
  IF IndexByte(bytes, LF) = -1 THEN Len(bytes)
  ELSE IF k <= 1 THEN IndexByte(bytes, LF) + 1
  ELSE IndexByte(bytes, LF) + 1
       + NthLF(Drop(bytes, IndexByte(bytes, LF) + 1), k - 1)

\* C31: after a Record call has written a truncated record for a line, the
\* records it writes for the rest of the chunk (the bytes after that line's
\* LF) are those a Record call with the rest alone writes on an empty
\* stream in Accumulating mode: same number, content, end, encoding and
\* truncated.
ContinuesAfterTruncation ==
  [][\A s \in Sources :
       fed'[s] # fed[s] =>
         LET chunk == Drop(fed'[s], Len(fed[s]))
             new == ViewsOf(Drop(WriterStream', Len(WriterStream)))
         IN \A k \in 1..Len(new) :
              new[k].truncated =>
                LET rest == Drop(chunk, NthLF(chunk, k))
                IN \E cp \in {Len(rest), Len(rest) + 2} :
                     SubSeq(new, k + 1, Len(new))
                       = FreshRecords(rest, cp, maxLineLength)]_vars

\* C32: with a limit > 0, a Record call on a stream in Accumulating mode
\* whose chunk holds no LF writes no record and leaves the counter alone;
\* when pending plus chunk is longer than the limit, pending becomes its
\* first `limit` bytes and the stream switches to Discarding, otherwise
\* (also at exactly `limit` bytes) pending grows by the chunk and the
\* stream stays in Accumulating.
CapAtLimit ==
  [][\A s \in Sources :
       LET chunk == Drop(fed'[s], Len(fed[s]))
           newBuf == buffers[s] \o chunk
       IN (fed'[s] # fed[s] /\ maxLineLength > 0 /\ ~truncated[s]
             /\ IndexByte(chunk, LF) = -1) =>
            /\ WriterStream' = WriterStream
            /\ seq' = seq
            /\ Len(newBuf) > maxLineLength =>
                 (buffers'[s] = Take(newBuf, maxLineLength) /\ truncated'[s])
            /\ Len(newBuf) <= maxLineLength =>
                 (buffers'[s] = newBuf /\ ~truncated'[s])]_vars

\* both cases have happened on one stream: two bytes pending at limit 2 in
\* Accumulating mode, then a third byte capped pending and engaged Discarding
CapAtLimitWitness ==
  /\ maxLineLength = 2
  /\ fed[AsmSource] = <<97, 49, 97>>
  /\ buffers[AsmSource] = <<97, 49>>
  /\ truncated[AsmSource]
  /\ WriterStream = <<>>

\* C33: in Discarding mode a Record call whose chunk holds an LF writes,
\* for the bytes up to the first LF, exactly one record, with truncated =
\* true and as content the pending bytes captured when truncation engaged
\* (a base64 record encodes them followed by the line ending);
\* the bytes after that LF are processed as by a call on an empty stream in
\* Accumulating mode (same further records, same pending bytes and mode
\* at the return: empty and Accumulating when nothing follows the LF).
DiscardingEndsAtLF ==
  [][\A s \in Sources :
       LET chunk == Drop(fed'[s], Len(fed[s]))
           new == ViewsOf(Drop(WriterStream', Len(WriterStream)))
           rest == Drop(chunk, IndexByte(chunk, LF) + 1)
       IN (fed'[s] # fed[s] /\ truncated[s] /\ IndexByte(chunk, LF) # -1) =>
            /\ Len(new) >= 1
            /\ new[1].truncated
            /\ new[1].encoding = "text" => new[1].content = buffers[s]
            /\ new[1].encoding = "base64" =>
                 IsPrefix(buffers[s], ContentBytes(new[1]))
            /\ \E cp \in {Len(rest), Len(rest) + 2} :
                 /\ Tail(new) = FreshRecords(rest, cp, maxLineLength)
                 /\ buffers'[s] = FreshRun(rest, cp, maxLineLength).bufS
                 /\ truncated'[s] = FreshRun(rest, cp, maxLineLength).truncS]_vars

\* C34: in Discarding mode a Record call whose chunk holds no LF changes
\* nothing of the recorder: no record, the counter, the pending bytes and
\* the mode are as before.
DiscardingDropsChunk ==
  [][\A s \in Sources :
       LET chunk == Drop(fed'[s], Len(fed[s]))
       IN (fed'[s] # fed[s] /\ truncated[s] /\ IndexByte(chunk, LF) = -1) =>
            /\ WriterStream' = WriterStream
            /\ seq' = seq
            /\ werr' = werr
            /\ buffers' = buffers
            /\ truncated' = truncated]_vars

\* a Discarding stream was fed a further chunk without LF: four bytes fed,
\* the first one pending, no record
DiscardingDropsChunkWitness ==
  /\ maxLineLength = 1
  /\ Len(fed[AsmSource]) = 4
  /\ IndexByte(fed[AsmSource], LF) = -1
  /\ truncated[AsmSource]
  /\ buffers[AsmSource] = Take(fed[AsmSource], 1)
  /\ pc[AsmSource] = "idle"
  /\ seq = 0 /\ WriterStream = <<>>

\* what Record(source, bytes) in one chunk followed by Flush(source) writes
\* on a new stream
OneChunkRecords(bytes, cp, max) ==
  ViewsOf(RunSteps(FlushBody(FreshRun(bytes, cp, max)), max, NoFailure).writer)

\* C35: with a limit > 0, the records of a flushed stream (content, end,
\* encoding and truncated of each, in order) do not depend on how the bytes
\* were split into Record calls: they are the records of the same bytes fed
\* in one chunk and flushed.
ChunkingIndependent ==
  \A s \in Sources :
    (pc[s] = "done" /\ maxLineLength > 0) =>
      \E cp \in {Len(fed[s]), Len(fed[s]) + 2} :
        ViewsOf(WriterStream) = OneChunkRecords(fed[s], cp, maxLineLength)

\* C36: when a Record call returns a write error, the stream it was called
\* for is in Accumulating mode with an empty pending buffer, whatever the
\* stream's state, the chunk and the writer call that failed.
FailedLineForgotten ==
  \A s \in Sources :
    pc[s] = "idle" =>
      \A chunk \in SeqsUpTo({97, LF}, 2) : \A okWrites \in 0..1 :
        LET fr == [NoFrame EXCEPT !.arr = chunk, !.cap = Len(chunk)]
            m == RunSteps(RecordBegin(Machine(fr, s)), maxLineLength, okWrites)
        IN m.err = "err" => (m.bufS = <<>> /\ ~m.truncS)

\* C37: between calls and with a limit > 0, the pending buffer of every
\* stream holds at most `limit` bytes and no LF, and a stream in Discarding
\* mode has exactly `limit` bytes pending (so its buffer is not empty).
PendingWithinLimit ==
  maxLineLength > 0 =>
    \A s \in Sources :
      /\ Len(buffers[s]) <= maxLineLength
      /\ IndexByte(buffers[s], LF) = -1
      /\ truncated[s] => Len(buffers[s]) = maxLineLength

\* a stream in Discarding mode between two calls, its limit of 2 bytes
\* pending, after a record was written and more bytes than the limit fed
PendingWithinLimitWitness ==
  /\ maxLineLength = 2
  /\ pc[AsmSource] = "idle"
  /\ truncated[AsmSource]
  /\ Len(buffers[AsmSource]) = 2
  /\ Len(WriterStream) > 0
  /\ Len(fed[AsmSource]) = 4

\* C38: timestamps follow the sequence numbers: of two records of the log
\* the one with the smaller seq has a timestamp that is not later.
TimestampsFollowSeq ==
  \A i, j \in 1..Len(LogRecords) :
    LogRecords[i].seq < LogRecords[j].seq
      => LogRecords[i].timestamp <= LogRecords[j].timestamp

RecordKeepsChunk ==
  \A s \in Sources :
    /\ Len(frame[s].arr) <= Len(fed[s])
    /\ frame[s].arr = Drop(fed[s], Len(fed[s]) - Len(frame[s].arr))

====
